---------------------------- MODULE Spec2Model ----------------------------
(***************************************************************************)
(* State-machine model of swyft's nested-round scheduler                   *)
(* (NestedRatios in src/swyft/interface.py), the constrained prior         *)
(* (src/swyft/marginals/prior.py) and the simulation store it drives.      *)
(* Components that do not interact with the scheduler have specifications  *)
(* of their own: SimSpec (Simulator.run), CmdSpec (Simulator.from_command),*)
(* FnSpec (functions of Prior), RsSpec and RsCallerSpec (one call and      *)
(* repeated calls of rejection_sample), ReSpec (RatioEstimation) and       *)
(* SwSpec (the SWYFT convenience class).                                   *)
(*                                                                         *)
(* Modelling conventions                                                   *)
(*  - One parameter (D = 1): the unit cube is the unit interval, cut into  *)
(*    NumCells cells of equal length.  A mask is a set of cells, its       *)
(*    volume the fraction of cells it covers.  v ** (1 / D) is v.          *)
(*  - Floats are exact rationals <<numerator, denominator>> in lowest      *)
(*    terms.  np.log is never evaluated: log(a) - log(b) < th is decided   *)
(*    as a / b < e^th with e^th from a table, and the IEEE special cases   *)
(*    log(0) = -inf, -inf - -inf = nan are written out.                    *)
(*  - The cache (swyft/cache.py), the masks (swyft/marginals/mask.py) and  *)
(*    the ratio estimator network are not part of the source tree; the     *)
(*    cache and the mask builder follow the specification document, the    *)
(*    network is an oracle (training may raise, log-ratios are arbitrary). *)
(***************************************************************************)
EXTENDS Integers, Sequences, FiniteSets, TLC

\* ------------------------------------------------------------------ bounds
\* Number of cells the unit interval is cut into.
NumCells == 3
\* Largest value drawn for Ninit, Nmax and the N of gen_custom_marginals.
MaxN == 2
\* Largest value drawn for max_rounds.
MaxRoundsArg == 2
\* Number of calls of run / gen_custom_marginals in one behaviour.
MaxCalls == 2
\* Largest number of rounds the history may reach: run is only called with a
\* max_rounds that keeps R() within it.
MaxR == 3
\* Largest number of points the model fails on in one simulate.
MaxFail == 1
\* Largest number of points in a batch given to Simulator.run.
MaxBatch == 3
\* Largest parameter value of a point of a batch.
MaxZ == 1
\* Number of threads of one process that run model(z) of from_command.
NumThreads == 2
\* Number of invocations of model(z) each thread makes.
MaxInvocations == 2
\* Largest N and largest maxiter given to rejection_sample.
MaxSamples == 2
MaxIter == 3
\* Largest number of samples one iteration keeps for one marginal.
MaxAccept == 2
\* Number of train / load_state calls on one RatioEstimation object.
MaxOps == 3
\* rejection_sample: calls a caller makes with one collection
MaxRsCalls == 2
\* Number of rounds of one SWYFT object that complete.
MaxSwRounds == 2

Cells == 0 .. (NumCells - 1)

\* --------------------------------------------------------------- rationals
RECURSIVE GCD(_, _)
GCD(a, b) == IF b = 0 THEN a ELSE GCD(b, a % b)

\* The rational n / d (d > 0, n >= 0) in lowest terms.
Rat(n, d) == LET g == GCD(n, d) IN <<n \div g, d \div g>>
RInt(n) == <<n, 1>>
RLess(a, b) == a[1] * b[2] < b[1] * a[2]
RLeq(a, b) == a[1] * b[2] <= b[1] * a[2]
RMul(a, b) == Rat(a[1] * b[1], a[2] * b[2])
\* a / b for b > 0.
RDiv(a, b) == Rat(a[1] * b[2], a[2] * b[1])
\* Python's max(a, b): a unless b > a.  Python's min(a, b): a unless b < a.
PyMax(a, b) == IF RLess(a, b) THEN b ELSE a
PyMin(a, b) == IF RLess(b, a) THEN b ELSE a
\* int(x) for x >= 0.
Floor(a) == a[1] \div a[2]

\* ------------------------------------------------------------------- Prior
\* Prior(prior_config, mask): mask None is masked = FALSE.
Prior(masked, cells) == [masked |-> masked, cells |-> cells]
\* NestedRatios._base_prior: no mask, the whole cube.
base_prior == Prior(FALSE, Cells)

\* ComboMask.volume: the product of the per-parameter mask lengths.
MaskVolume(cells) == Rat(Cardinality(cells), NumCells)

\* Prior.volume()
volume(prior) == IF ~prior.masked THEN <<1, 1>> ELSE MaskVolume(prior.cells)

\* Optional values: None is the empty sequence, a value x is <<x>>.
None == <<>>
Some(x) == <<x>>


\* -------------------------------------------------------- SimulationStatus
PENDING == 0
RUNNING == 1
FINISHED == 2
FAILED == 3

\* ------------------------------------------------------------ the cache
\* A record of the store: the cell its parameter point lies in, its status.
Record(cell, status) == [cell |-> cell, status |-> status]

\* Mutant: only FINISHED records count as present, PENDING ones are drawn again.
Admissible_finished_only(store, prior) ==
    {i \in 1 .. Len(store) :
        store[i].cell \in prior.cells /\ store[i].status = FINISHED}

\* Indices of the records whose point lies in the region and that are still
\* usable (PENDING or FINISHED; FAILED records are excluded from sampling).
Admissible(store, prior) ==
    {i \in 1 .. Len(store) :
        store[i].cell \in prior.cells /\ store[i].status # FAILED}

\* Non-decreasing sequences of length n over S: the fresh draws of one grow,
\* in a canonical order.
Draws(S, n) ==
    {s \in [1 .. n -> S] : \A i \in 1 .. (n - 1) : s[i] <= s[i + 1]}

\* Number of fresh points grow has to draw: the shortfall of the admissible
\* records against the target N; nothing can be drawn from an empty region.
Shortfall(store, prior, N) ==
    LET have == Cardinality(Admissible(store, prior))
    IN  IF prior.cells = {} \/ Floor(N) <= have THEN 0 ELSE Floor(N) - have

\* cache.grow(prior, N): the stores it may leave behind.  Only appends.
grow(store, prior, N) ==
    {store \o [i \in 1 .. Shortfall(store, prior, N) |-> Record(d[i], PENDING)] :
        d \in Draws(prior.cells, Shortfall(store, prior, N))}

\* cache.requires_sim: true iff any record is PENDING.
requires_sim(store) == \E i \in 1 .. Len(store) : store[i].status = PENDING

\* Mutant: simulate runs the model on the FAILED records again.
simulate_retry_failed(store) ==
    LET todo == {i \in 1 .. Len(store) : store[i].status \in {PENDING, FAILED}}
    IN  {[i \in 1 .. Len(store) |->
            IF i \in failed THEN Record(store[i].cell, FAILED)
            ELSE IF i \in todo THEN Record(store[i].cell, FINISHED)
            ELSE store[i]] :
            failed \in {f \in SUBSET todo : Cardinality(f) <= MaxFail}}

\* cache.simulate(model): every PENDING record becomes FINISHED or FAILED,
\* as the model decides; no other record is touched.
simulate(store) ==
    LET pending == {i \in 1 .. Len(store) : store[i].status = PENDING}
    IN  {[i \in 1 .. Len(store) |->
            IF i \in failed THEN Record(store[i].cell, FAILED)
            ELSE IF i \in pending THEN Record(store[i].cell, FINISHED)
            ELSE store[i]] :
            failed \in {f \in SUBSET pending : Cardinality(f) <= MaxFail}}

\* The first n elements of a set of indices.
RECURSIVE FirstN(_, _)
FirstN(S, n) ==
    IF n = 0 \/ S = {} THEN {}
    ELSE LET m == CHOOSE x \in S : \A y \in S : x <= y
         IN  {m} \cup FirstN(S \ {m}, n - 1)

\* cache.sample(prior, N): indices of the FINISHED records inside the region,
\* truncated to N.
sample(store, prior, N) ==
    FirstN({i \in 1 .. Len(store) :
               store[i].cell \in prior.cells /\ store[i].status = FINISHED},
           Floor(N))

\* ----------------------------------------------------------- get_masked
\* Log-ratios the estimator may return for a sampled point, and the cutoff
\* gen_constr_prior passes (th = -10).
Scores == {-10, 0}
th_default == -10

Max(S) == CHOOSE x \in S : \A y \in S : y <= x

\* Mutant: the cutoff enters with the wrong sign.
KeptPoints_sign(pars, lnL, nan, th) ==
    IF nan THEN {}
    ELSE {c \in pars :
            (CHOOSE x \in {lnL[p] : p \in pars} :
                \A y \in {lnL[p] : p \in pars} : y <= x) - lnL[c] < th}

\* mask = lnL.max() - lnL < -th, over the sampled points pars.  A NaN among
\* the log-ratios makes lnL.max() NaN and every comparison False.
KeptPoints(pars, lnL, nan, th) ==
    IF nan THEN {}
    ELSE {c \in pars : Max({lnL[p] : p \in pars}) - lnL[c] < -th}

\* The mask built from the sampled points and their pass flags: one interval
\* per maximal run of consecutive passing points, from its first to its last.
from_threshold(grid, pass) ==
    {c \in Cells :
        \E a \in pass, b \in pass :
            /\ a <= c /\ c <= b
            /\ \A f \in grid \ pass : ~(a < f /\ f < b)}

\* Prior.get_masked(obs, re, th) for sampled points pars with log-ratios lnL.
get_masked(prior, pars, lnL, nan, th) ==
    Prior(TRUE, from_threshold(pars, KeptPoints(pars, lnL, nan, th)))

\* ------------------------------------------------- run: sample target
\* Mutant: the max(., N_Rm1) of the density schedule is missing.
next_N_no_max(density_factor, N_Rm1, v_Rm1, v_R, Nmax) ==
    PyMin(RMul(RMul(density_factor, RDiv(N_Rm1, v_Rm1)), v_R), RInt(Nmax))

\* N_R = min(max(density_R * v_R ** (1 / D), N_Rm1), Nmax)
next_N(density_factor, N_Rm1, v_Rm1, v_R, Nmax) ==
    LET density_Rm1 == RDiv(N_Rm1, v_Rm1)
        density_R == RMul(density_factor, density_Rm1)
    IN  PyMin(PyMax(RMul(density_R, v_R), N_Rm1), RInt(Nmax))

\* ------------------------------------------------- run: convergence
\* e^th for the thresholds of the model, to six decimals.
Exp(th) ==
    CASE th = <<1, 10>> -> <<1105171, 1000000>>
      [] th = <<7, 10>> -> <<2013753, 1000000>>

\* Mutant: a new volume of zero passes the test.
volume_converged_zero_passes(v_R, v_new, th) ==
    IF v_new[1] = 0 THEN TRUE
    ELSE IF v_R[1] = 0 THEN TRUE
    ELSE RLess(RDiv(v_R, v_new), Exp(th))

\* np.log(v_R) - np.log(v_new) < volume_conv_th
volume_converged(v_R, v_new, th) ==
    IF v_new[1] = 0 THEN FALSE               \* x - -inf = inf, nan < th False
    ELSE IF v_R[1] = 0 THEN TRUE             \* -inf - x = -inf
    ELSE RLess(RDiv(v_R, v_new), Exp(th))


\* ------------------------------------------------------------------ state
VARIABLES
    converged,        \* NestedRatios._converged
    history,          \* NestedRatios._history: entries marginals, constr_prior, N
    model,            \* NestedRatios._model is bound (TRUE) or None (FALSE)
    cache,            \* NestedRatios._cache: the sequence of store records
    pc,               \* position of the call in progress, "idle" between calls
    caller,           \* "run" or "gen_custom_marginals": who called _amortize
    args,             \* arguments of the call of run
    r,                \* run: rounds executed by this call
    prior_R,          \* run / _amortize: the region of this round
    N_R,              \* run / _amortize: the sample target of this round
    indices,          \* _amortize: the indices cache.sample returned
    marginals_R,      \* run: the Marginals _amortize returned (its prior)
    constr_prior_R,   \* run: the constrained prior gen_constr_prior returned
    outcome,          \* how the last call ended
    calls,            \* number of calls made so far
    stages,           \* history variable: stages of the current round, in order
    R0,               \* history variable: R() when the call of run started
    histAtRound,      \* history variable: _history when the round started
    growLog,          \* history variable: the last two grows of the cache
    z,                \* Simulator.run: the input points, one value per point
    batch_size,       \* Simulator.run: batch_size, 0 for None
    fail_on_non_finite, \* Simulator.fail_on_non_finite
    model_out,        \* what self.model does for the point at each position
    blocks,           \* the blocks of out: None until a block is computed
    completed,        \* history variable: the blocks in the order they completed
    sim_pc,           \* "off", "computing", "raised" or "done"
    result_dict,      \* Simulator.run: the observation array, once computed
    is_valid,         \* Simulator.run: the status array, once computed
    fn_pc,            \* Prior functions: "off", "input", then what was applied
    fn_in,            \* Prior functions: the Prior and the arguments drawn
    fn_out,           \* Prior functions: what the calls returned
    process_cwd,      \* from_command: the working directory of the process
    tmpdirs,          \* from_command: the temporary directories that exist
    inv,              \* from_command: per thread, its model(z) invocation
    rs_args,          \* rejection_sample: N, maxiter, param_tuples
    counter,          \* rejection_sample: counter
    remaining_param_tuples, \* rejection_sample: remaining_param_tuples
    collector,        \* rejection_sample: collector, the samples kept per key
    rs_out,           \* rejection_sample: out
    rs_pc,            \* rejection_sample: "off", "loop", "returned" or "warned"
    caller_param_tuples, \* the collection the caller passed as param_tuples
    rs_prev,          \* history variable: how the earlier calls ended
    net,              \* RatioEstimation.net: the version of its weights
    ratio_cache,      \* RatioEstimation.ratio_cache
    evals,            \* history variable: get_ratios calls made, per x0
    returned,         \* what the last posterior(x0) returned: x0 and ratios
    re_ops,           \* number of train / load_state calls made
    xz_store,         \* SWYFT.xz_store
    net_store,        \* SWYFT.net_store
    loss_store,       \* SWYFT.loss_store
    test_loss_store,  \* SWYFT.test_loss_store
    files,            \* what torch.save has written, per filename
    sw_rounds,        \* number of rounds of the SWYFT object that completed
    sw_last           \* the last call on the SWYFT object, "raised" if it raised

\* The variables of the scheduler, and those of the simulator.
sched_vars == <<converged, history, model, cache, pc, caller, args, r, prior_R, N_R,
                indices, marginals_R, constr_prior_R, outcome, calls, stages, R0,
                histAtRound, growLog>>
sim_vars == <<z, batch_size, fail_on_non_finite, model_out, blocks, completed,
              sim_pc, result_dict, is_valid>>

fn_vars == <<fn_pc, fn_in, fn_out>>
cmd_vars == <<process_cwd, tmpdirs, inv>>
rs_vars == <<rs_args, counter, remaining_param_tuples, collector, rs_out, rs_pc,
             caller_param_tuples, rs_prev>>
re_vars == <<net, ratio_cache, evals, returned, re_ops>>
sw_vars == <<xz_store, net_store, loss_store, test_loss_store, files, sw_rounds,
             sw_last>>

vars == <<sched_vars, sim_vars, fn_vars, cmd_vars, rs_vars, re_vars, sw_vars>>

\* What the steps of one component leave alone: the other components.
outside_sched == <<sim_vars, fn_vars, cmd_vars, rs_vars, re_vars, sw_vars>>
outside_sim == <<sched_vars, fn_vars, cmd_vars, rs_vars, re_vars, sw_vars>>
outside_fn == <<sched_vars, sim_vars, cmd_vars, rs_vars, re_vars, sw_vars>>
outside_cmd == <<sched_vars, sim_vars, fn_vars, rs_vars, re_vars, sw_vars>>
outside_rs == <<sched_vars, sim_vars, fn_vars, cmd_vars, re_vars, sw_vars>>
outside_re == <<sched_vars, sim_vars, fn_vars, cmd_vars, rs_vars, sw_vars>>
outside_sw == <<sched_vars, sim_vars, fn_vars, cmd_vars, rs_vars, re_vars>>

locals == <<prior_R, N_R, indices, marginals_R, constr_prior_R>>

\* Values the arguments of run are drawn from.  density_factor 1/2 and 1 and
\* volume_conv_th -1/10 and 0 are the invalid ones the assertions reject.
DensityFactors == {<<1, 2>>, <<1, 1>>, <<2, 1>>}
Thresholds == {<<-1, 10>>, <<0, 1>>, <<1, 10>>, <<7, 10>>}
RunArgs ==
    [Ninit : 1 .. MaxN, Nmax : 1 .. MaxN, density_factor : DensityFactors,
     volume_conv_th : Thresholds, max_rounds : 1 .. MaxRoundsArg,
     keep_history : BOOLEAN]
NoArgs ==
    [Ninit |-> 1, Nmax |-> 1, density_factor |-> <<2, 1>>,
     volume_conv_th |-> <<1, 10>>, max_rounds |-> 1, keep_history |-> FALSE]

NoGrow ==
    [valid |-> FALSE, prior |-> base_prior, N |-> <<0, 1>>, len |-> 0, idx |-> {},
     repeat |-> FALSE, prevLen |-> 0, prevIdx |-> {}]

\* NestedRatios.R()
R == Len(history)

Last(h) == h[Len(h)]

\* NestedRatios.__init__: nothing has run.
SchedulerInit ==
    /\ converged = FALSE
    /\ history = <<>>
    /\ model \in BOOLEAN
    /\ cache = <<>>
    /\ pc = "idle"
    /\ caller = "none"
    /\ args = NoArgs
    /\ r = 0
    /\ prior_R = base_prior
    /\ N_R = <<0, 1>>
    /\ indices = {}
    /\ marginals_R = None
    /\ constr_prior_R = None
    /\ outcome = "none"
    /\ calls = 0
    /\ stages = <<>>
    /\ R0 = 0
    /\ histAtRound = <<>>
    /\ growLog = NoGrow

\* No batch has been given to the simulator.
NoSimulation ==
    /\ z = <<>>
    /\ batch_size = 0
    /\ fail_on_non_finite = TRUE
    /\ model_out = <<>>
    /\ blocks = <<>>
    /\ completed = <<>>
    /\ sim_pc = "off"
    /\ result_dict = <<>>
    /\ is_valid = <<>>

\* No Prior function is being applied.
NoFunction == fn_pc = "off" /\ fn_in = <<>> /\ fn_out = <<>>

\* No command-line simulator is running.
NoCommand == process_cwd = <<0, 0>> /\ tmpdirs = {} /\ inv = <<>>

\* No rejection_sample is running.
NoRejectionSample ==
    /\ rs_args = <<>>
    /\ counter = 0
    /\ remaining_param_tuples = {}
    /\ collector = <<>>
    /\ rs_out = <<>>
    /\ rs_pc = "off"
    /\ caller_param_tuples = <<>>
    /\ rs_prev = <<>>

\* No RatioEstimation object is in use.
NoRatioEstimation ==
    /\ net = 0
    /\ ratio_cache = <<>>
    /\ evals = <<>>
    /\ returned = <<>>
    /\ re_ops = 0

\* No SWYFT object is in use.
NoSwyft ==
    /\ xz_store = <<>>
    /\ net_store = <<>>
    /\ loss_store = <<>>
    /\ test_loss_store = <<>>
    /\ files = <<>>
    /\ sw_rounds = 0
    /\ sw_last = "off"

Init ==
    /\ SchedulerInit
    /\ NoSimulation
    /\ NoFunction
    /\ NoCommand
    /\ NoRejectionSample
    /\ NoRatioEstimation
    /\ NoSwyft

\* The call ends (returns or raises): its locals are gone.  The history
\* variables outlive a call that halted on a missing model, for the caller to
\* compare against; every other ending resets them.
End(how) ==
    /\ pc' = "idle"
    /\ outcome' = how
    /\ caller' = "none"
    /\ args' = NoArgs
    /\ prior_R' = base_prior
    /\ N_R' = <<0, 1>>
    /\ indices' = {}
    /\ marginals_R' = None
    /\ constr_prior_R' = None
    /\ IF how = "MissingModel"
       THEN UNCHANGED <<r, stages, R0, histAtRound>>
       ELSE r' = 0 /\ stages' = <<>> /\ R0' = 0 /\ histAtRound' = <<>>

\* ------------------------------------------------- NestedRatios.marginals
\* `self._history is []`: the identity of _history and a list made on the
\* spot, False for every _history.
is_empty_literal(h) == FALSE

\* The marginals property: warns if the test above passes, then evaluates
\* self._history['marginals'], a list indexed by a string, which raises
\* TypeError whatever the list holds.
marginals_property(h) ==
    [warned |-> is_empty_literal(h), raised |-> TRUE, value |-> None]

\* ------------------------------------------------------- NestedRatios.run
\* Mutant: the assertions accept the boundary values.
valid_config_nonstrict(a) ==
    /\ RLeq(<<1, 1>>, a.density_factor)
    /\ RLeq(<<0, 1>>, a.volume_conv_th)

\* assert density_factor > 1.0; assert volume_conv_th > 0.0
valid_config(a) ==
    /\ RLess(<<1, 1>>, a.density_factor)
    /\ RLess(<<0, 1>>, a.volume_conv_th)

\* run is called: the assertions, then r = 0.
RunStart(a) ==
    /\ pc = "idle"
    /\ calls < MaxCalls
    /\ R + a.max_rounds <= MaxR
    /\ calls' = calls + 1
    /\ IF valid_config(a)
       THEN /\ pc' = "loop"
            /\ outcome' = "running"
            /\ caller' = "run"
            /\ args' = a
            /\ r' = 0
            /\ R0' = R
            /\ stages' = <<>>
            /\ histAtRound' = history
            /\ UNCHANGED locals
       ELSE End("AssertionError")
    /\ UNCHANGED <<converged, history, model, cache, growLog>>
    /\ UNCHANGED outside_sched

\* Mutant: the loop only counts rounds.
loop_condition_rounds_only(conv, rounds, a) == rounds < a.max_rounds

\* while (not self.converged()) and (r < max_rounds)
loop_condition(conv, rounds, a) == (~conv) /\ rounds < a.max_rounds

\* The artifacts of the last round that a new round reads are still there.
last_intact(h) == Last(h).constr_prior # None /\ Last(h).marginals # None

\* Mutant: every round starts from the base prior.
round_prior_base(h) == base_prior

\* prior_R of the round: the base prior in the first round, the last
\* constrained prior afterwards.
round_prior(h) ==
    IF Len(h) = 0 THEN base_prior ELSE Last(h).constr_prior[1]

\* Mutant: Nmax also caps the Ninit of the first round.
round_N_capped(h, a) ==
    IF Len(h) = 0 THEN PyMin(RInt(a.Ninit), RInt(a.Nmax))
    ELSE next_N(a.density_factor, Last(h).N, volume(Last(h).marginals[1]),
                volume(round_prior(h)), a.Nmax)

\* N_R of the round: Ninit in the first round, the density schedule afterwards.
round_N(h, a) ==
    IF Len(h) = 0 THEN RInt(a.Ninit)
    ELSE next_N(a.density_factor, Last(h).N, volume(Last(h).marginals[1]),
                volume(round_prior(h)), a.Nmax)

\* A round starts: region and sample target are derived from the history.
\* Reading a dropped (None) artifact raises.
RoundBegin ==
    /\ pc = "loop"
    /\ loop_condition(converged, r, args)
    /\ IF R > 0 /\ ~last_intact(history)
       THEN End("AttributeError")
       ELSE /\ prior_R' = round_prior(history)
            /\ N_R' = round_N(history, args)
            /\ pc' = "grow"
            /\ stages' = <<>>
            /\ histAtRound' = history
            /\ UNCHANGED <<indices, marginals_R, constr_prior_R, outcome, caller, args,
                           r, R0>>
    /\ UNCHANGED <<converged, history, model, cache, calls, growLog>>
    /\ UNCHANGED outside_sched

\* The loop ends: run returns.
RunReturn ==
    /\ pc = "loop"
    /\ ~loop_condition(converged, r, args)
    /\ End("returned")
    /\ UNCHANGED <<converged, history, model, cache, calls, growLog>>
    /\ UNCHANGED outside_sched

\* ------------------------------------------------- NestedRatios._amortize
\* What a step of the call in progress leaves alone when the call goes on.
call_frame == <<caller, args, r, R0, histAtRound, outcome>>

\* The history variable after a grow that left store c: what this grow
\* yielded and, when it repeats the previous grow (same region, same target,
\* no simulation in between), what the previous one yielded.
logged_grow(log, c, prior, N) ==
    LET again == log.valid /\ log.prior = prior /\ log.N = N
    IN  [valid |-> TRUE, prior |-> prior, N |-> N, len |-> Len(c),
         idx |-> Admissible(c, prior), repeat |-> again,
         prevLen |-> IF again THEN log.len ELSE 0,
         prevIdx |-> IF again THEN log.idx ELSE {}]

\* self._cache.grow(prior, N)
Grow ==
    /\ pc = "grow"
    /\ \E c \in grow(cache, prior_R, N_R) :
        /\ cache' = c
        /\ growLog' = logged_grow(growLog, c, prior_R, N_R)
    /\ pc' = "simcheck"
    /\ stages' = Append(stages, "grow")
    /\ UNCHANGED <<converged, history, model, locals, calls, call_frame>>
    /\ UNCHANGED outside_sched

\* Mutant: the requires_sim check is skipped.
needs_simulation_never(store) == FALSE

\* if self._cache.requires_sim:
needs_simulation(store) == requires_sim(store)

\* self._cache.simulate(self._model)
Simulate ==
    /\ pc = "simcheck"
    /\ needs_simulation(cache)
    /\ model
    /\ cache' \in simulate(cache)
    /\ growLog' = NoGrow
    /\ pc' = "sample"
    /\ stages' = Append(stages, "simulate")
    /\ UNCHANGED <<converged, history, model, locals, calls, call_frame>>
    /\ UNCHANGED outside_sched

\* Mutant: a halt on a missing model is recorded as convergence.
RaiseMissingModel_converged ==
    /\ pc = "simcheck"
    /\ needs_simulation(cache)
    /\ ~model
    /\ converged' = TRUE
    /\ End(IF caller = "run" THEN "MissingModel" ELSE "MissingModelError")
    /\ UNCHANGED <<history, model, cache, calls, growLog>>
    /\ UNCHANGED outside_sched

\* raise MissingModelError: run catches it, logs and returns;
\* gen_custom_marginals lets it out.
RaiseMissingModel ==
    /\ pc = "simcheck"
    /\ needs_simulation(cache)
    /\ ~model
    /\ End(IF caller = "run" THEN "MissingModel" ELSE "MissingModelError")
    /\ UNCHANGED <<converged, history, model, cache, calls, growLog>>
    /\ UNCHANGED outside_sched

\* indices = self._cache.sample(prior, N); points = Points(...), which raises
\* when the cache requires simulation.
Sample ==
    /\ \/ pc = "simcheck" /\ ~needs_simulation(cache)
       \/ pc = "sample"
    /\ IF requires_sim(cache)
       THEN End("RuntimeError")
       ELSE /\ indices' = sample(cache, prior_R, N_R)
            /\ pc' = "train"
            /\ stages' = Append(stages, "sample")
            /\ UNCHANGED <<prior_R, N_R, marginals_R, constr_prior_R, call_frame>>
    /\ UNCHANGED <<converged, history, model, cache, calls, growLog>>
    /\ UNCHANGED outside_sched

\* Mutant: run catches a failure of training like a missing model and returns.
Train_caught ==
    /\ pc = "train"
    /\ \E ok \in BOOLEAN :
        IF ~ok THEN End("returned")
        ELSE IF caller = "run"
        THEN /\ marginals_R' = Some(prior_R)
             /\ pc' = "mask"
             /\ stages' = Append(stages, "train")
             /\ UNCHANGED <<prior_R, N_R, indices, constr_prior_R, call_frame>>
        ELSE End("marginals")
    /\ UNCHANGED <<converged, history, model, cache, calls, growLog>>
    /\ UNCHANGED outside_sched

\* re.train(points, **train_args); return Marginals(re, prior).  Training
\* may raise.  gen_custom_marginals returns the marginals to its caller.
Train ==
    /\ pc = "train"
    /\ \E ok \in BOOLEAN :
        IF ~ok THEN End("TrainingError")
        ELSE IF caller = "run"
        THEN /\ marginals_R' = Some(prior_R)
             /\ pc' = "mask"
             /\ stages' = Append(stages, "train")
             /\ UNCHANGED <<prior_R, N_R, indices, constr_prior_R, call_frame>>
        ELSE End("marginals")
    /\ UNCHANGED <<converged, history, model, cache, calls, growLog>>
    /\ UNCHANGED outside_sched

\* constr_prior_R = marginals_R.gen_constr_prior(self._obs): get_masked on
\* points sampled from the region.  lnL[(k,)].max() of no points raises.
GenConstrPrior ==
    /\ pc = "mask"
    /\ IF marginals_R[1].cells = {}
       THEN End("ValueError")
       ELSE /\ \E pars \in (SUBSET marginals_R[1].cells) \ {{}} :
                \E lnL \in [pars -> Scores], nan \in BOOLEAN :
                    constr_prior_R' =
                        Some(get_masked(marginals_R[1], pars, lnL, nan, th_default))
            /\ pc' = "record"
            /\ stages' = Append(stages, "mask")
            /\ UNCHANGED <<prior_R, N_R, indices, marginals_R, call_frame>>
    /\ UNCHANGED <<converged, history, model, cache, calls, growLog>>
    /\ UNCHANGED outside_sched

\* Mutant: the entry of the round is appended twice.
appended_twice(h, m, c, N) ==
    Append(Append(h, [marginals |-> m, constr_prior |-> c, N |-> N]),
           [marginals |-> m, constr_prior |-> c, N |-> N])

\* self._history.append(dict(marginals, constr_prior, N))
appended(h, m, c, N) == Append(h, [marginals |-> m, constr_prior |-> c, N |-> N])

\* Mutant: the artifacts of the entry just appended are dropped.
dropped_last(h, keep_history) ==
    IF (~keep_history) /\ Len(h) > 1
    THEN [h EXCEPT ![Len(h)].marginals = None, ![Len(h)].constr_prior = None]
    ELSE h

\* if (not keep_history) and (self.R() > 1): drop the artifacts of _history[-2]
dropped(h, keep_history) ==
    IF (~keep_history) /\ Len(h) > 1
    THEN [h EXCEPT ![Len(h) - 1].marginals = None, ![Len(h) - 1].constr_prior = None]
    ELSE h

\* Mutant: the two volumes of the convergence check are swapped.
round_converged_swapped(prior, constr, a) ==
    volume_converged(volume(constr), volume(prior), a.volume_conv_th)

\* The convergence check of the round, on the volumes of prior_R and
\* constr_prior_R.
round_converged(prior, constr, a) ==
    volume_converged(volume(prior), volume(constr), a.volume_conv_th)

\* Mutant: the round is counted but its history entry is not appended.
RecordRound_no_append ==
    /\ pc = "record"
    /\ r' = r + 1
    /\ converged' = IF round_converged(prior_R, constr_prior_R[1], args)
                    THEN TRUE ELSE converged
    /\ pc' = "loop"
    /\ stages' = Append(stages, "append")
    /\ UNCHANGED <<history, model, cache, locals, calls, growLog, caller, args, R0,
                   histAtRound, outcome>>
    /\ UNCHANGED outside_sched

\* Update object history, r += 1, drop previous marginals, check convergence.
RecordRound ==
    /\ pc = "record"
    /\ history' = dropped(appended(history, marginals_R, constr_prior_R, N_R),
                          args.keep_history)
    /\ r' = r + 1
    /\ converged' = IF round_converged(prior_R, constr_prior_R[1], args)
                    THEN TRUE ELSE converged
    /\ pc' = "loop"
    /\ stages' = Append(stages, "append")
    /\ UNCHANGED <<model, cache, locals, calls, growLog, caller, args, R0, histAtRound,
                   outcome>>
    /\ UNCHANGED outside_sched

\* ------------------------------------- NestedRatios.gen_custom_marginals
GenCustomMarginals(N) ==
    /\ pc = "idle"
    /\ calls < MaxCalls
    /\ calls' = calls + 1
    /\ IF R > 0 /\ Last(history).constr_prior = None
       THEN End("AttributeError")
       ELSE /\ prior_R' = round_prior(history)
            /\ N_R' = RInt(N)
            /\ pc' = "grow"
            /\ outcome' = "running"
            /\ caller' = "gen_custom_marginals"
            /\ stages' = <<>>
            /\ histAtRound' = history
            /\ R0' = R
            /\ UNCHANGED <<indices, marginals_R, constr_prior_R, args, r>>
    /\ UNCHANGED <<converged, history, model, cache, growLog>>
    /\ UNCHANGED outside_sched

\* ------------------------------------------------ the user, between calls
\* "Run `cache.simulate(model)`, then re-start `NestedRatios.run`."
CacheSimulate ==
    /\ pc = "idle"
    /\ requires_sim(cache)
    /\ cache' \in simulate(cache)
    /\ growLog' = NoGrow
    /\ UNCHANGED <<converged, history, model, locals, pc, calls, stages, call_frame>>
    /\ UNCHANGED outside_sched

Next ==
    \/ \E a \in RunArgs : RunStart(a)
    \/ RoundBegin
    \/ RunReturn
    \/ Grow
    \/ Simulate
    \/ RaiseMissingModel
    \/ Sample
    \/ Train
    \/ GenConstrPrior
    \/ RecordRound
    \/ \E N \in 1 .. MaxN : GenCustomMarginals(N)
    \/ CacheSimulate

Spec == Init /\ [][Next]_vars

\* ============================================================== Simulator
\* What self.model(z_i) may do: return a dictionary of finite values, return
\* a dictionary holding a non-finite value, return a dictionary with a None
\* field, return something that is not a dictionary, or raise.
ModelOutcomes == {"finite", "non_finite", "missing", "not_dict", "raises"}

\* The observation a model that works returns for the point z_i.
Obs(z_i) == z_i

\* np.nan: the fill value of x, and what a float row holds after None has
\* been written to it.
nan == -1

\* np.inf: the non-finite value a model output may hold.
inf == -2

\* _has_failed(x, fail_on_non_finite), for x a dictionary.
has_failed(out, fnf) ==
    IF out = "missing" THEN FAILED
    ELSE IF fnf /\ out = "non_finite" THEN FAILED
    ELSE FINISHED

\* model(z_i) raises, or the assertion of _has_failed does.
raises(out) == out \in {"raises", "not_dict"}

\* The truth value of a SimulationStatus (an IntEnum): `if _failed`, and the
\* value stored by has_failed[i] = _failed in an array of dtype bool.
Bool(status) == status # 0

\* x[obs][i] = val: the row written for a point.
written(z_i, out) ==
    IF out = "finite" THEN Obs(z_i)
    ELSE IF out = "non_finite" THEN inf
    ELSE nan

\* _run_model_chunk(z, model, sim_shapes, fail_on_non_finite) on a chunk zs
\* whose model calls behave as outs: it raises, or returns (x, has_failed).
run_model_chunk(zs, outs, fnf) ==
    [raised |-> \E i \in 1 .. Len(zs) : raises(outs[i]),
     x |-> [i \in 1 .. Len(zs) |->
              IF Bool(has_failed(outs[i], fnf)) THEN written(zs[i], outs[i])
              ELSE nan],
     has_failed |-> [i \in 1 .. Len(zs) |->
              IF Bool(has_failed(outs[i], fnf))
              THEN Bool(has_failed(outs[i], fnf)) ELSE FALSE]]

\* chunks = (batch_size or n_samples, n_parameters)
chunk_size(n_samples, bs) == IF bs = 0 THEN n_samples ELSE bs

\* Number of blocks da.rechunk cuts n_samples rows into.
num_blocks(n_samples, bs) ==
    (n_samples + chunk_size(n_samples, bs) - 1) \div chunk_size(n_samples, bs)

\* First and last row of block b.
block_first(n_samples, bs, b) == (b - 1) * chunk_size(n_samples, bs) + 1
block_last(n_samples, bs, b) ==
    IF b * chunk_size(n_samples, bs) < n_samples
    THEN b * chunk_size(n_samples, bs) ELSE n_samples

\* The concatenation of a sequence of sequences.
RECURSIVE Flatten(_)
Flatten(ss) == IF ss = <<>> THEN <<>> ELSE Head(ss) \o Flatten(Tail(ss))

\* Mutant: the blocks are put together in the order they completed.
recombine_by_completion(bl, done, field) ==
    Flatten([k \in 1 .. Len(done) |-> bl[done[k]][1][field]])

\* A dask array computed: its blocks, put together by block index.
recombine(bl, done, field) ==
    Flatten([b \in 1 .. Len(bl) |-> bl[b][1][field]])

\* The batches Simulator.run is given, and the ways the model behaves on them.
SimInit ==
    /\ SchedulerInit
    /\ model
    /\ \E n \in 1 .. MaxBatch :
        /\ z \in [1 .. n -> 0 .. MaxZ]
        /\ model_out \in [1 .. n -> ModelOutcomes]
        /\ batch_size \in 0 .. MaxBatch
        /\ blocks = [b \in 1 .. num_blocks(n, batch_size) |-> None]
    /\ fail_on_non_finite \in BOOLEAN
    /\ completed = <<>>
    /\ sim_pc = "computing"
    /\ result_dict = <<>>
    /\ is_valid = <<>>
    /\ NoFunction
    /\ NoCommand
    /\ NoRejectionSample
    /\ NoRatioEstimation
    /\ NoSwyft

\* One block of da.map_blocks(_run_model_chunk, z, ...) is computed; the
\* scheduler picks any block not computed yet.  An exception of the chunk
\* function ends the computation of the whole array.
RunModelChunk(b) ==
    /\ sim_pc = "computing"
    /\ b \in DOMAIN blocks
    /\ blocks[b] = None
    /\ LET n == Len(z)
           rows == block_first(n, batch_size, b) .. block_last(n, batch_size, b)
           zs == [i \in 1 .. Cardinality(rows) |->
                    z[block_first(n, batch_size, b) + i - 1]]
           outs == [i \in 1 .. Cardinality(rows) |->
                      model_out[block_first(n, batch_size, b) + i - 1]]
           res == run_model_chunk(zs, outs, fail_on_non_finite)
       IN  IF res.raised
           THEN /\ sim_pc' = "raised"
                /\ UNCHANGED <<blocks, completed>>
           ELSE /\ blocks' = [blocks EXCEPT ![b] = Some(res)]
                /\ completed' = Append(completed, b)
                /\ UNCHANGED sim_pc
    /\ UNCHANGED <<z, batch_size, fail_on_non_finite, model_out, result_dict, is_valid>>
    /\ UNCHANGED outside_sim

\* All blocks are there: result_dict and is_valid are the blocks' first and
\* second elements (getitem 0, getitem 1), put together.
Recombine ==
    /\ sim_pc = "computing"
    /\ \A b \in DOMAIN blocks : blocks[b] # None
    /\ result_dict' = recombine(blocks, completed, "x")
    /\ is_valid' = recombine(blocks, completed, "has_failed")
    /\ sim_pc' = "done"
    /\ UNCHANGED <<z, batch_size, fail_on_non_finite, model_out, blocks, completed>>
    /\ UNCHANGED outside_sim

SimNext ==
    \/ \E b \in 1 .. MaxBatch : RunModelChunk(b)
    \/ Recombine

SimSpec == SimInit /\ [][SimNext]_vars

\* ======================================================== Prior functions
\* The prior_config values of the model: one parameter, two choices of its
\* one-dimensional prior.
PriorConfigs == {"uniform", "normal"}

\* Every Prior of the model: without mask, or with any mask.
AllPriors == {base_prior} \cup {Prior(TRUE, c) : c \in SUBSET Cells}

\* The cutoffs th given to get_masked.
Cutoffs == {-10, 0}

\* ComboMask.state_dict: the intervals of the mask, each a maximal run of
\* cells <<first, last>>.
mask_state_dict(cells) ==
    {<<lo, hi>> \in cells \X cells :
        /\ lo <= hi
        /\ \A c \in lo .. hi : c \in cells
        /\ (lo - 1) \notin cells
        /\ (hi + 1) \notin cells}

\* ComboMask.from_state_dict: the cells the intervals cover.
mask_from_state_dict(intervals) ==
    UNION {iv[1] .. iv[2] : iv \in intervals}

\* Prior.state_dict()
state_dict(prior_config, prior) ==
    [prior_config |-> prior_config,
     mask |-> IF ~prior.masked THEN None ELSE Some(mask_state_dict(prior.cells))]

\* Mutant: a mask of None is read back as a mask without intervals.
from_state_dict_no_none(sd) ==
    [prior_config |-> sd.prior_config,
     prior |-> IF sd.mask = None THEN Prior(TRUE, {})
               ELSE Prior(TRUE, mask_from_state_dict(sd.mask[1]))]

\* Prior.from_state_dict(state_dict)
from_state_dict(sd) ==
    [prior_config |-> sd.prior_config,
     prior |-> IF sd.mask = None THEN Prior(FALSE, Cells)
               ELSE Prior(TRUE, mask_from_state_dict(sd.mask[1]))]

\* A Prior, and the points sampled from it with their log-ratios.
FnInit ==
    /\ SchedulerInit
    /\ model
    /\ NoSimulation
    /\ fn_pc = "input"
    /\ \E prior \in AllPriors, cfg \in PriorConfigs, th \in Cutoffs, nn \in BOOLEAN :
         \E pars \in SUBSET prior.cells :
           \E lnL \in [pars -> Scores] :
             fn_in = [prior_config |-> cfg, prior |-> prior, pars |-> pars,
                      lnL |-> lnL, nan |-> nn, th |-> th]
    /\ fn_out = <<>>
    /\ NoCommand
    /\ NoRejectionSample
    /\ NoRatioEstimation
    /\ NoSwyft

\* prior.get_masked(obs, re, th=th); lnL[(k,)].max() of no points raises.
ApplyGetMasked ==
    /\ fn_pc = "input"
    /\ fn_pc' = "get_masked"
    /\ fn_out' =
         IF fn_in.pars = {} THEN [raised |-> TRUE, kept |-> {}, prior |-> fn_in.prior]
         ELSE [raised |-> FALSE,
               kept |-> KeptPoints(fn_in.pars, fn_in.lnL, fn_in.nan, fn_in.th),
               prior |-> get_masked(fn_in.prior, fn_in.pars, fn_in.lnL, fn_in.nan,
                                    fn_in.th)]
    /\ UNCHANGED fn_in
    /\ UNCHANGED outside_fn

\* prior.state_dict()
ApplyStateDict ==
    /\ fn_pc = "input"
    /\ fn_pc' = "state_dict"
    /\ fn_out' = [state_dict |-> state_dict(fn_in.prior_config, fn_in.prior)]
    /\ UNCHANGED fn_in
    /\ UNCHANGED outside_fn

\* Prior.from_state_dict(...) of the state_dict just made.
ApplyFromStateDict ==
    /\ fn_pc = "state_dict"
    /\ fn_pc' = "from_state_dict"
    /\ fn_out' = [state_dict |-> fn_out.state_dict,
                  restored |-> from_state_dict(fn_out.state_dict)]
    /\ UNCHANGED fn_in
    /\ UNCHANGED outside_fn

FnNext ==
    \/ ApplyGetMasked
    \/ ApplyStateDict
    \/ ApplyFromStateDict

FnSpec == FnInit /\ [][FnNext]_vars

\* ================================================ Simulator.from_command
\* Directories: the one the process starts in, and the temporary directory
\* of invocation k of thread t; no directory.
Home == <<0, 0>>
TmpDir(t, k) == <<t, k>>
NoDir == <<>>

Threads == 1 .. NumThreads

\* A directory exists: os.getcwd() and os.chdir() raise FileNotFoundError
\* for one that has been removed.
dir_exists(d, existing) == d = Home \/ d \in existing

\* Two threads of one process, about to call model(z).
CmdInit ==
    /\ SchedulerInit
    /\ model
    /\ NoSimulation
    /\ NoFunction
    /\ process_cwd = Home
    /\ tmpdirs = {}
    /\ inv = [t \in Threads |->
                [pc |-> "start", n |-> 0, tmpdirname |-> NoDir, cwd |-> NoDir,
                 ran_in |-> NoDir, raised |-> FALSE]]
    /\ NoRejectionSample
    /\ NoRatioEstimation
    /\ NoSwyft

\* with tempfile.TemporaryDirectory(dir=tmpdir) as tmpdirname:
MakeTmpDir(t) ==
    /\ inv[t].pc = "start"
    /\ inv[t].n < MaxInvocations
    /\ inv' = [inv EXCEPT ![t] =
                 [pc |-> "getcwd", n |-> inv[t].n + 1,
                  tmpdirname |-> TmpDir(t, inv[t].n + 1), cwd |-> NoDir,
                  ran_in |-> NoDir, raised |-> FALSE]]
    /\ tmpdirs' = tmpdirs \cup {TmpDir(t, inv[t].n + 1)}
    /\ UNCHANGED process_cwd
    /\ UNCHANGED outside_cmd

\* cwd = os.getcwd()
GetCwd(t) ==
    /\ inv[t].pc = "getcwd"
    /\ inv' = IF dir_exists(process_cwd, tmpdirs)
              THEN [inv EXCEPT ![t].pc = "chdir", ![t].cwd = process_cwd]
              ELSE [inv EXCEPT ![t].pc = "cleanup", ![t].raised = TRUE]
    /\ UNCHANGED <<process_cwd, tmpdirs>>
    /\ UNCHANGED outside_cmd

\* os.chdir(tmpdirname)
ChDir(t) ==
    /\ inv[t].pc = "chdir"
    /\ process_cwd' = inv[t].tmpdirname
    /\ inv' = [inv EXCEPT ![t].pc = "run"]
    /\ UNCHANGED tmpdirs
    /\ UNCHANGED outside_cmd

\* set_input_method(z); subprocess.run(command_args, ..., check=True);
\* get_output_method(...).  The command runs in the working directory the
\* process has at that moment; any of the three may raise.
RunCommand(t) ==
    /\ inv[t].pc = "run"
    /\ \E ok \in BOOLEAN :
        inv' = IF ok
               THEN [inv EXCEPT ![t].pc = "restore", ![t].ran_in = process_cwd]
               ELSE [inv EXCEPT ![t].pc = "cleanup", ![t].ran_in = process_cwd,
                                ![t].raised = TRUE]
    /\ UNCHANGED <<process_cwd, tmpdirs>>
    /\ UNCHANGED outside_cmd

\* os.chdir(cwd)
RestoreCwd(t) ==
    /\ inv[t].pc = "restore"
    /\ IF dir_exists(inv[t].cwd, tmpdirs)
       THEN /\ process_cwd' = inv[t].cwd
            /\ inv' = [inv EXCEPT ![t].pc = "cleanup"]
       ELSE /\ inv' = [inv EXCEPT ![t].pc = "cleanup", ![t].raised = TRUE]
            /\ UNCHANGED process_cwd
    /\ UNCHANGED tmpdirs
    /\ UNCHANGED outside_cmd

\* The with block is left, by return or by exception: the temporary
\* directory is removed.
Cleanup(t) ==
    /\ inv[t].pc = "cleanup"
    /\ tmpdirs' = tmpdirs \ {inv[t].tmpdirname}
    /\ inv' = [inv EXCEPT ![t].pc = "start"]
    /\ UNCHANGED process_cwd
    /\ UNCHANGED outside_cmd

CmdNext ==
    \E t \in Threads :
        \/ MakeTmpDir(t)
        \/ GetCwd(t)
        \/ ChDir(t)
        \/ RunCommand(t)
        \/ RestoreCwd(t)
        \/ Cleanup(t)

CmdSpec == CmdInit /\ [][CmdNext]_vars

\* ================================== PosteriorCollection.rejection_sample
\* The keys of weighted_samples["weights"]: the marginals.
Marginals == {"a", "b"}

\* Mutant: the loop runs while counter <= maxiter.
keep_sampling_once_more(c, maxiter) == c <= maxiter

\* while counter < maxiter
keep_sampling(c, maxiter) == c < maxiter

\* Mutant: the collected samples are not cut to N.
concatenated_uncut(coll, N) == coll

\* np.concatenate(collector[param_tuple])[:N]
concatenated(coll, N) == SubSeq(coll, 1, IF Len(coll) < N THEN Len(coll) ELSE N)

\* Mutant: the loop works on a copy of the caller's collection.
aliased_copy(supplied, remaining) == supplied

\* remaining_param_tuples = param_tuples: with param_tuples supplied, the
\* loop's collection and the caller's are one object, and what
\* remaining_param_tuples.remove(...) leaves is what the caller holds; with
\* param_tuples None the collection is a set made by the call.
aliased(supplied, remaining) ==
    IF supplied = None THEN None ELSE Some(remaining)

\* rejection_sample is called: N, maxiter and the marginals asked for; the
\* collector is empty, out is empty, counter is 0.  The caller passes a set
\* of marginals of its own, or None for all of them.
RsInit ==
    /\ SchedulerInit
    /\ model
    /\ NoSimulation
    /\ NoFunction
    /\ NoCommand
    /\ rs_args \in [N : 1 .. MaxSamples, maxiter : 0 .. MaxIter,
                     param_tuples : (SUBSET Marginals) \ {{}}]
    /\ counter = 0
    /\ remaining_param_tuples = rs_args.param_tuples
    /\ collector = [k \in rs_args.param_tuples |-> <<>>]
    /\ rs_out = <<>>
    /\ rs_pc = "loop"
    /\ caller_param_tuples \in {None, Some(rs_args.param_tuples)}
    /\ caller_param_tuples = None => rs_args.param_tuples = Marginals
    /\ rs_prev = <<>>
    /\ NoRatioEstimation
    /\ NoSwyft

\* One pass of the loop body: for every remaining marginal some of the
\* weighted samples are kept (as the random draws decide) and appended to
\* its collector; a marginal whose first N collected samples are N goes to
\* out and leaves remaining_param_tuples; with none remaining out is
\* returned, otherwise new samples are drawn and counter is incremented.
Iterate ==
    /\ rs_pc = "loop"
    /\ keep_sampling(counter, rs_args.maxiter)
    /\ \E kept \in [remaining_param_tuples -> 0 .. MaxAccept] :
        LET coll == [k \in DOMAIN collector |->
                       IF k \in remaining_param_tuples
                       THEN collector[k] \o [j \in 1 .. kept[k] |-> <<counter, j>>]
                       ELSE collector[k]]
            full == {k \in remaining_param_tuples :
                        Len(concatenated(coll[k], rs_args.N)) = rs_args.N}
            new_out == [k \in (DOMAIN rs_out) \cup full |->
                          IF k \in full THEN concatenated(coll[k], rs_args.N)
                          ELSE rs_out[k]]
            remaining == remaining_param_tuples \ DOMAIN new_out
        IN  /\ collector' = coll
            /\ rs_out' = new_out
            /\ remaining_param_tuples' = remaining
            /\ caller_param_tuples' = aliased(caller_param_tuples, remaining)
            /\ IF remaining # {}
               THEN counter' = counter + 1 /\ UNCHANGED rs_pc
               ELSE rs_pc' = "returned" /\ UNCHANGED counter
    /\ UNCHANGED <<rs_args, rs_prev>>
    /\ UNCHANGED outside_rs

\* The loop ends on counter: warn(...), return out.
WarnAndReturn ==
    /\ rs_pc = "loop"
    /\ ~keep_sampling(counter, rs_args.maxiter)
    /\ rs_pc' = "warned"
    /\ UNCHANGED <<rs_args, counter, remaining_param_tuples, collector, rs_out,
                   caller_param_tuples, rs_prev>>
    /\ UNCHANGED outside_rs

RsNext ==
    \/ Iterate
    \/ WarnAndReturn

\* The call keeps running until it returns.
RsSpec == RsInit /\ [][RsNext]_vars /\ WF_vars(RsNext)

\* The caller calls rejection_sample again, with the same N and maxiter and
\* the collection object it passed before: param_tuples, collector (line
\* 92), out and counter are set up from what the collection holds now.
CallAgain ==
    /\ rs_pc \in {"returned", "warned"}
    /\ caller_param_tuples # None
    /\ Len(rs_prev) + 1 < MaxRsCalls
    /\ rs_prev' = Append(rs_prev, [pc |-> rs_pc, out |-> rs_out])
    /\ rs_args' = [rs_args EXCEPT !.param_tuples = caller_param_tuples[1]]
    /\ counter' = 0
    /\ remaining_param_tuples' = caller_param_tuples[1]
    /\ collector' = [k \in caller_param_tuples[1] |-> <<>>]
    /\ rs_out' = <<>>
    /\ rs_pc' = "loop"
    /\ UNCHANGED caller_param_tuples
    /\ UNCHANGED outside_rs

RsCallerNext ==
    \/ Iterate
    \/ WarnAndReturn
    \/ CallAgain

\* A caller that makes calls one after the other with one collection.
RsCallerSpec == RsInit /\ [][RsCallerNext]_vars

\* ======================================================== RatioEstimation
\* Observations x0: an array is its shape and its data.
Shapes == {"flat", "square"}
Datas == {0, 1}
X0s == Shapes \X Datas

\* x0.tobytes(): the data of the array, without its shape.
tobytes(x0) == x0[2]

\* A RatioEstimation object after __init__: the first network, an empty
\* ratio_cache.
ReInit ==
    /\ SchedulerInit
    /\ model
    /\ NoSimulation
    /\ NoFunction
    /\ NoCommand
    /\ NoRejectionSample
    /\ net = 0
    /\ ratio_cache = <<>>
    /\ evals = [k \in Datas |-> 0]
    /\ returned = <<>>
    /\ re_ops = 0
    /\ NoSwyft

\* Mutant: training empties the ratio_cache.
ReTrain_clears_cache ==
    /\ re_ops < MaxOps
    /\ net' = re_ops + 1
    /\ re_ops' = re_ops + 1
    /\ ratio_cache' = <<>>
    /\ UNCHANGED <<evals, returned>>
    /\ UNCHANGED outside_re

\* train(): trainloop changes the weights of self.net, nothing else.
ReTrain ==
    /\ re_ops < MaxOps
    /\ net' = re_ops + 1
    /\ re_ops' = re_ops + 1
    /\ UNCHANGED <<ratio_cache, evals, returned>>
    /\ UNCHANGED outside_re

\* load_state(PATH): the weights of self.net become those saved earlier.
LoadState(v) ==
    /\ re_ops < MaxOps
    /\ v <= re_ops
    /\ net' = v
    /\ re_ops' = re_ops + 1
    /\ UNCHANGED <<ratio_cache, evals, returned>>
    /\ UNCHANGED outside_re

\* _eval_ratios(x0): nothing if the key is in the cache, else the ratios
\* of the current network are put there.
eval_ratios(cache_, x0, net_) ==
    IF tobytes(x0) \in DOMAIN cache_ THEN cache_
    ELSE [k \in (DOMAIN cache_) \cup {tobytes(x0)} |->
            IF k = tobytes(x0) THEN net_ ELSE cache_[k]]

\* posterior(x0, indices): _eval_ratios(x0), then the ratios read from the
\* cache.
Posterior(x0) ==
    /\ ratio_cache' = eval_ratios(ratio_cache, x0, net)
    /\ evals' = IF tobytes(x0) \in DOMAIN ratio_cache THEN evals
                ELSE [evals EXCEPT ![tobytes(x0)] = @ + 1]
    /\ returned' = <<x0, eval_ratios(ratio_cache, x0, net)[tobytes(x0)]>>
    /\ UNCHANGED <<net, re_ops>>
    /\ UNCHANGED outside_re

ReNext ==
    \/ ReTrain
    \/ \E v \in 0 .. MaxOps : LoadState(v)
    \/ \E x0 \in X0s : Posterior(x0)

ReSpec == ReInit /\ [][ReNext]_vars

\* ================================================================== SWYFT
\* Filenames given to save and load.
Filenames == {"a.pt", "b.pt"}

\* Where a round may raise: nowhere, in sample_z / iter_sample_z, in
\* sample_x (the model), in train.
RoundOutcomes == {"ok", "sample", "simulate", "train"}

\* SWYFT.__init__: four empty stores; nothing has been saved.
SwInit ==
    /\ SchedulerInit
    /\ model
    /\ NoSimulation
    /\ NoFunction
    /\ NoCommand
    /\ NoRejectionSample
    /\ NoRatioEstimation
    /\ xz_store = <<>>
    /\ net_store = <<>>
    /\ loss_store = <<>>
    /\ test_loss_store = <<>>
    /\ files = [f \in Filenames |-> None]
    /\ sw_rounds = 0
    /\ sw_last = "init"

\* SWYFT.round(combine=combine).  xz is the samples of this round, with the
\* last entry of xz_store added when combine is set (self.xz_store[-1] of an
\* empty store raises IndexError); the network and the two loss histories
\* are those of this round.  The four appends are the last statements.
Round(combine, how) ==
    /\ sw_rounds < MaxSwRounds
    /\ IF how # "ok" \/ (combine /\ xz_store = <<>>)
       THEN /\ sw_last' = "raised"
            /\ UNCHANGED <<xz_store, net_store, loss_store, test_loss_store,
                           sw_rounds>>
       ELSE LET tag == sw_rounds + 1
                xz == IF combine THEN {tag} \cup Last(xz_store) ELSE {tag}
            IN  /\ xz_store' = Append(xz_store, xz)
                /\ net_store' = Append(net_store, tag)
                /\ loss_store' = Append(loss_store, tag)
                /\ test_loss_store' = Append(test_loss_store, tag)
                /\ sw_rounds' = tag
                /\ sw_last' = "round"
    /\ UNCHANGED files
    /\ UNCHANGED outside_sw

\* SWYFT.save(filename): obj holds xz_store, loss_store and net_store.
Save(f) ==
    /\ files' = [files EXCEPT ![f] = Some([xz_store |-> xz_store,
                                           loss_store |-> loss_store,
                                           net_store |-> net_store])]
    /\ sw_last' = "save"
    /\ UNCHANGED <<xz_store, net_store, loss_store, test_loss_store, sw_rounds>>
    /\ UNCHANGED outside_sw

\* SWYFT.load(filename): torch.load of a file that was never written
\* raises; otherwise the three stores of obj replace those of the object.
Load(f) ==
    /\ IF files[f] = None
       THEN /\ sw_last' = "raised"
            /\ UNCHANGED <<xz_store, net_store, loss_store>>
       ELSE /\ xz_store' = files[f][1].xz_store
            /\ net_store' = files[f][1].net_store
            /\ loss_store' = files[f][1].loss_store
            /\ sw_last' = "load"
    /\ UNCHANGED <<test_loss_store, files, sw_rounds>>
    /\ UNCHANGED outside_sw

SwNext ==
    \/ \E combine \in BOOLEAN, how \in RoundOutcomes : Round(combine, how)
    \/ \E f \in Filenames : Save(f)
    \/ \E f \in Filenames : Load(f)

SwSpec == SwInit /\ [][SwNext]_vars


\* ================================================================= claims
StagePcs == {"grow", "simcheck", "sample", "train", "mask", "record"}

InRound == caller = "run" /\ pc \in StagePcs

\* The two orders a completed round of run can have.
StageOrders ==
    {<<"grow", "simulate", "sample", "train", "mask", "append">>,
     <<"grow", "sample", "train", "mask", "append">>}

\* Where the call stands after the stages it has logged.
PcAfter(st) ==
    IF st = <<>> THEN {"loop", "grow"}
    ELSE CASE Last(st) = "grow" -> {"simcheck"}
           [] Last(st) = "simulate" -> {"sample"}
           [] Last(st) = "sample" -> {"train"}
           [] Last(st) = "train" -> {"mask"}
           [] Last(st) = "mask" -> {"record"}
           [] Last(st) = "append" -> {"loop"}

\* C1: in every round of run the stages happen in the order grow, simulate
\* (only when the store requires it), sample, train, re-mask, append, each one
\* after the previous one has returned; the history entry of a round is
\* appended by its last stage, and a round only starts when the entries of
\* all earlier rounds of the call are in the history (R() = R0 + r).
C1_StageOrder ==
    caller = "run" =>
        /\ \E o \in StageOrders :
               Len(stages) <= Len(o) /\ stages = SubSeq(o, 1, Len(stages))
        /\ pc \in PcAfter(stages)
        /\ R = R0 + r
        /\ IF stages # <<>> /\ Last(stages) = "append"
           THEN Len(history) = Len(histAtRound) + 1
           ELSE history = histAtRound

C1_Witness ==
    /\ caller = "run"
    /\ pc = "loop"
    /\ r = 2
    /\ stages = <<"grow", "simulate", "sample", "train", "mask", "append">>

\* C2: whenever the Points dataset is constructed or training is started, no
\* record of the store is PENDING, and Points never has to refuse a store
\* that requires simulation.
C2_NoPendingAtTraining ==
    /\ (pc \in {"sample", "train"}) => ~requires_sim(cache)
    /\ outcome # "RuntimeError"

C2_Witness ==
    /\ pc = "train"
    /\ \E i \in 1 .. Len(stages) : stages[i] = "simulate"
    /\ \E i \in 1 .. Len(cache) : cache[i].status = FINISHED

\* log(a) - log(b) < th for volumes a, b, with the IEEE cases of a zero.
LogDiffBelow(a, b, th) ==
    IF b[1] = 0 THEN FALSE
    ELSE IF a[1] = 0 THEN TRUE
    ELSE a[1] * b[2] * Exp(th)[2] < b[1] * a[2] * Exp(th)[1]

\* C3: a completed round marks convergence exactly when
\* log(v_r) - log(v_{r+1}) < volume_conv_th, v_r the volume of the region the
\* round trained on and v_{r+1} that of the region it constructed; with
\* threshold 0.1 the step 0.4 -> 0.36 does not converge, 0.36 -> 0.33 does.
C3_ConvergenceTest ==
    /\ (caller = "run" /\ pc = "loop" /\ r > 0) =>
          (converged <=>
              LogDiffBelow(volume(Last(history).marginals[1]),
                           volume(Last(history).constr_prior[1]),
                           args.volume_conv_th))
    /\ ~volume_converged(Rat(40, 100), Rat(36, 100), <<1, 10>>)
    /\ volume_converged(Rat(36, 100), Rat(33, 100), <<1, 10>>)

C3_Witness ==
    /\ caller = "run" /\ pc = "loop" /\ r > 0
    /\ converged
    /\ RLess(volume(Last(history).constr_prior[1]), volume(Last(history).marginals[1]))

\* C4 (as claimed): after a halt on MissingModel, R() and converged() are
\* what they were before the call of run.
C4_Original ==
    outcome = "MissingModel" => (R = R0 /\ ~converged)

\* C4 (amended): after a halt on MissingModel the history and the converged
\* flag are what they were when the halted round started: the round has grown
\* the store and nothing else (no training, no history entry, no
\* convergence); rounds the call completed before stay recorded.
C4_MissingModelHalts ==
    outcome = "MissingModel" =>
        /\ pc = "idle"
        /\ history = histAtRound
        /\ R = R0 + r
        /\ ~converged
        /\ stages = <<"grow">>

C4_Witness ==
    /\ outcome = "MissingModel"
    /\ r > 0
    /\ requires_sim(cache)

\* C5: a grow that repeats the previous grow (same region, same sample
\* target, no simulation in between), as on re-entry after a MissingModel
\* halt, yields the same indices and appends no record.
C5_GrowIdempotent ==
    growLog.repeat =>
        /\ growLog.len = growLog.prevLen
        /\ growLog.idx = growLog.prevIdx

C5_Witness ==
    /\ growLog.repeat
    /\ caller = "run"
    /\ pc = "simcheck"
    /\ ~model
    /\ requires_sim(cache)

\* C6: a call of run executes at most max_rounds rounds; when that count is
\* reached without the convergence test having passed, the call returns
\* with converged() false and the history as it is; a round of a later call
\* continues from the history (its region is the last constrained prior,
\* its number R() + 1), not from the base prior.
C6_MaxRoundsPause ==
    /\ [](caller = "run" => (r <= args.max_rounds /\ R = R0 + r))
    /\ [][(pc = "loop" /\ ~converged /\ r >= args.max_rounds) =>
             (pc' = "idle" /\ outcome' = "returned" /\ ~converged'
              /\ history' = history)]_vars
    /\ []((InRound /\ R > 0) =>
             (prior_R = Last(history).constr_prior[1] /\ prior_R.masked))

C6_Witness ==
    /\ InRound
    /\ pc = "grow"
    /\ calls = 2
    /\ r = 0
    /\ R0 > 0
    /\ prior_R = Last(history).constr_prior[1]

\* clamp(x, lo, hi) = min(max(x, lo), hi)
Clamp(x, lo, hi) ==
    IF RLess(hi, lo) \/ RLess(hi, x) THEN hi
    ELSE IF RLess(x, lo) THEN lo ELSE x

\* C7 (as claimed): the sample targets recorded in the history are
\* non-decreasing.
C7_Original ==
    \A i \in 1 .. (Len(history) - 1) : RLeq(history[i].N, history[i + 1].N)

\* C7 (amended): in every round after the first,
\* N_r = min(max(density_factor * N_{r-1} / v_{r-1} * v_r, N_{r-1}), Nmax),
\* and this is the target the round records; N_r >= N_{r-1} when
\* N_{r-1} <= Nmax, and N_r = Nmax < N_{r-1} otherwise.
C7_DensitySchedule ==
    /\ (InRound /\ R > 0) =>
          LET prev == Last(history)
              hi == RInt(args.Nmax)
              x == RMul(RMul(args.density_factor,
                             RDiv(prev.N, volume(prev.marginals[1]))),
                        volume(prev.constr_prior[1]))
          IN  /\ N_R = Clamp(x, prev.N, hi)
              /\ RLeq(prev.N, hi) => RLeq(prev.N, N_R)
              /\ RLess(hi, prev.N) => N_R = hi
    /\ (caller = "run" /\ pc = "loop" /\ r > 0) => Last(history).N = N_R

C7_Witness ==
    /\ InRound
    /\ R > 0
    /\ RLess(Last(history).N, N_R)
    /\ RLess(N_R, RInt(args.Nmax))

\* C8: the sample target recorded for every round, the first included, is at
\* most Nmax.
C8_NmaxCaps ==
    (caller = "run" /\ pc = "loop" /\ r > 0) =>
        RLeq(Last(history).N, RInt(args.Nmax))

\* C9: for every completed round, the volume of the constrained region it
\* constructed is at most the volume of the region it trained on.
C9_MonotonicShrink ==
    R > 0 =>
        RLeq(volume(Last(history).constr_prior[1]),
             volume(Last(history).marginals[1]))

\* The last completed round constructed a region of zero volume.
ZeroRegion == R > 0 /\ volume(Last(history).constr_prior[1]) = <<0, 1>>

\* C10: when a round constructs a region of zero volume, run raises an error
\* and executes no further round: it neither starts another round on the
\* empty region nor returns normally.
C10_DegenerateIsError ==
    ZeroRegion =>
        /\ ~(InRound /\ r > 0)
        /\ outcome # "returned"

\* C11: when training raises during a round of run, the call ends with the
\* failure surfaced to its caller (run does not catch it, so nothing is
\* retried), and the step changes neither the history nor the converged
\* flag nor the store: the round is not recorded and the records grown and
\* simulated for it stay.
C11_TrainingFailure ==
    [][(caller = "run" /\ pc = "train" /\ pc' # "mask") =>
          /\ pc' = "idle"
          /\ outcome' = "TrainingError"
          /\ history' = history
          /\ converged' = converged
          /\ cache' = cache]_vars

\* run, the only call so far, completed a round and failed training in the
\* next one, with simulated records in the store.
C11_Witness ==
    /\ outcome = "TrainingError"
    /\ calls = 1
    /\ R > 0
    /\ ~converged
    /\ \E i \in 1 .. Len(cache) : cache[i].status = FINISHED


\* C12: a call of run with density_factor <= 1 or volume_conv_th <= 0 is
\* rejected at once: every call of run that gets as far as a round has
\* density_factor > 1 and volume_conv_th > 0, and the step that rejects a
\* call leaves the store, the history and the converged flag as they are.
C12_ConfigFailsFast ==
    /\ [](caller = "run" =>
            /\ args.density_factor[1] > args.density_factor[2]
            /\ args.volume_conv_th[1] > 0)
    /\ [][(calls' # calls /\ outcome' = "AssertionError") =>
             /\ pc = "idle" /\ pc' = "idle"
             /\ cache' = cache
             /\ history' = history
             /\ converged' = converged]_vars

\* A call was rejected when the store and the history were not empty.
C12_Witness ==
    /\ outcome = "AssertionError"
    /\ calls = 2
    /\ R > 0
    /\ Len(cache) > 0


\* The model fails for a point: it raises, returns something that is not a
\* dictionary, returns a missing field or, if configured, a non-finite value.
fails(out, fnf) ==
    out \in {"raises", "not_dict", "missing"} \/ (fnf /\ out = "non_finite")

\* C13: a point the model fails for does not abort the batch: the
\* computation never ends in an exception, and the arrays returned hold a
\* row and a status for every point, the observation of every point the
\* model worked for, and the failed flag for exactly the failed points.
C13_PartialFailureIsolation ==
    /\ sim_pc # "raised"
    /\ sim_pc = "done" =>
          /\ Len(result_dict) = Len(z)
          /\ Len(is_valid) = Len(z)
          /\ \A i \in 1 .. Len(z) :
                /\ is_valid[i] <=> fails(model_out[i], fail_on_non_finite)
                /\ model_out[i] = "finite" => result_dict[i] = Obs(z[i])

\* C14: the flag returned for a point is true exactly when the output of
\* the model holds a missing field or, with fail_on_non_finite, a non-finite
\* value; a complete output of finite values is flagged not failed.
C14_FailureFlag ==
    sim_pc = "done" =>
        \A i \in 1 .. Len(z) :
            is_valid[i] <=>
                \/ model_out[i] = "missing"
                \/ fail_on_non_finite /\ model_out[i] = "non_finite"

\* C15: whatever the order the blocks are computed in, row i of the
\* observation array and entry i of the status array returned are what
\* _run_model_chunk yields for input point i.
C15_RecombinedByPosition ==
    sim_pc = "done" =>
        /\ Len(result_dict) = Len(z)
        /\ Len(is_valid) = Len(z)
        /\ \A i \in 1 .. Len(z) :
              LET own == run_model_chunk(<<z[i]>>, <<model_out[i]>>,
                                         fail_on_non_finite)
              IN  /\ result_dict[i] = own.x[1]
                  /\ is_valid[i] = own.has_failed[1]

\* Three blocks completed out of order, and the rows returned differ.
C15_Witness ==
    /\ sim_pc = "done"
    /\ completed = <<3, 1, 2>>
    /\ result_dict[1] # result_dict[2]
    /\ result_dict[2] # result_dict[3]


\* C16: the store only grows, and by PENDING records; the point of a record
\* never changes; a record leaves PENDING only in a simulate step, for
\* FINISHED or FAILED; a FINISHED or FAILED record never changes again (no
\* way back to PENDING or RUNNING, no second result, no second model call
\* for a FAILED point).
C16_StatusLifecycle ==
    [][/\ Len(cache') >= Len(cache)
       /\ \A i \in 1 .. Len(cache') :
            IF i > Len(cache) THEN cache'[i].status = PENDING
            ELSE /\ cache'[i].cell = cache[i].cell
                 /\ cache[i].status \in {FINISHED, FAILED} => cache'[i] = cache[i]
                 /\ cache'[i].status # cache[i].status =>
                       /\ cache[i].status = PENDING
                       /\ cache'[i].status \in {FINISHED, FAILED}
                       /\ pc \in {"simcheck", "idle"}
                       /\ ~requires_sim(cache')]_vars

\* Two simulate steps have each left a FAILED record (the first one has
\* been through the second simulate), next to a FINISHED one.
C16_Witness ==
    /\ Cardinality({i \in 1 .. Len(cache) : cache[i].status = FAILED}) >= 2
    /\ \E i \in 1 .. Len(cache) : cache[i].status = FINISHED


\* C17: with keep_history false, whenever run stands between two rounds or
\* has returned, the two most recent history entries hold their marginals
\* and their constrained prior.
C17_KeepsLastTwo ==
    (R >= 2 /\ pc \in {"idle", "loop"}) =>
        \A i \in {R - 1, R} :
            history[i].marginals # None /\ history[i].constr_prior # None

\* C18: compaction leaves the N of every history entry alone, and the last
\* entry, the only one a later round of run or a call of
\* gen_custom_marginals reads, always holds its marginals and constrained
\* prior: no call ends on a dropped (None) artifact.
C18_CompactionKeepsSchedule ==
    /\ [](R > 0 => last_intact(history))
    /\ [](outcome # "AttributeError")
    /\ [][\A i \in 1 .. Len(history) :
             i <= Len(history') /\ history'[i].N = history[i].N]_vars

\* A round of run, or a call of gen_custom_marginals, is under way on a
\* history whose entry before the last has been compacted.
C18_Witness ==
    /\ pc \in {"train", "mask"}
    /\ R >= 2
    /\ history[R - 1].marginals = None
    /\ history[R - 1].N # Last(history).N

C20_MarginalsProperty ==
    R > 0 =>
        /\ ~marginals_property(history).raised
        /\ marginals_property(history).value = Last(history).marginals


C22_OwnTmpDir ==
    inv # <<>> =>
        \A t \in Threads :
            /\ inv[t].ran_in # NoDir => inv[t].ran_in = inv[t].tmpdirname
            /\ inv[t].cwd # NoDir => inv[t].cwd[1] \in {0, t}


\* C23: rejection_sample returns, after at most maxiter passes of its loop:
\* at the end of the pass that leaves no marginal remaining, or, with a
\* warning and the marginals completed so far, once maxiter passes have
\* been made.
C23_RejectionSampleTerminates ==
    /\ [](rs_pc # "off" =>
            /\ counter <= rs_args.maxiter
            /\ rs_pc = "returned" =>
                  (remaining_param_tuples = {} /\ counter < rs_args.maxiter
                   /\ DOMAIN rs_out = rs_args.param_tuples)
            /\ rs_pc = "warned" =>
                  (remaining_param_tuples # {} /\ counter = rs_args.maxiter
                   /\ DOMAIN rs_out = rs_args.param_tuples \ remaining_param_tuples)
            /\ rs_pc = "loop" => remaining_param_tuples # {})
    /\ <>(rs_pc \in {"returned", "warned"})

\* maxiter passes were made, one marginal was completed, one was not.
C23_Witness ==
    /\ rs_pc = "warned"
    /\ counter = MaxIter
    /\ DOMAIN rs_out = {"a"}
    /\ remaining_param_tuples = {"b"}

\* C24: every marginal in out holds exactly N samples, the first N kept
\* for it; a marginal for which fewer than N samples have been kept is not
\* in out; an entry of out is never changed by a later pass.
C24_ExactlyNSamples ==
    /\ [](rs_pc # "off" =>
            \A k \in rs_args.param_tuples :
                /\ k \in DOMAIN rs_out <=> Len(collector[k]) >= rs_args.N
                /\ k \in DOMAIN rs_out =>
                      /\ Len(rs_out[k]) = rs_args.N
                      /\ rs_out[k] = SubSeq(collector[k], 1, rs_args.N))
    /\ [][\A k \in DOMAIN rs_out :
             k \in DOMAIN rs_out' /\ rs_out'[k] = rs_out[k]]_vars

\* One marginal got more than N samples in its last pass and was cut to
\* N; passes were made after it had been completed; the other marginal
\* never got N samples.
C24_Witness ==
    /\ rs_pc = "warned"
    /\ DOMAIN rs_out = {"a"}
    /\ Len(collector["a"]) > rs_args.N
    /\ collector["a"][1][1] = 0
    /\ Len(collector["b"]) < rs_args.N
    /\ Len(collector["b"]) > 0


\* C25: get_masked keeps exactly the sampled points whose log-ratio lies at
\* most the cutoff below the maximum, lnL - max(lnL) >= th, the boundary
\* included; with a cutoff of 0 the point of maximal log-ratio is kept.
C25_ThresholdInclusive ==
    (fn_pc = "get_masked" /\ ~fn_out.raised /\ ~fn_in.nan) =>
        fn_out.kept =
            {c \in fn_in.pars :
                fn_in.lnL[c] - Max({fn_in.lnL[q] : q \in fn_in.pars}) >= fn_in.th}

\* C29: with a negative cutoff, at least one point sampled and all
\* log-ratios finite, get_masked keeps every point of maximal log-ratio, so
\* the points that define the mask are never none.
C29_MaxPointKept ==
    (fn_pc = "get_masked" /\ fn_in.th < 0 /\ fn_in.pars # {} /\ ~fn_in.nan) =>
        /\ ~fn_out.raised
        /\ fn_out.kept # {}
        /\ \A c \in fn_in.pars :
              fn_in.lnL[c] = Max({fn_in.lnL[q] : q \in fn_in.pars}) =>
                  c \in fn_out.kept

\* Three points sampled, th = -10: the one of maximal log-ratio is kept,
\* the others are not.
C29_Witness ==
    /\ fn_pc = "get_masked"
    /\ fn_in.th = th_default
    /\ ~fn_in.nan
    /\ Cardinality(fn_in.pars) = 3
    /\ Cardinality(fn_out.kept) = 1


\* C26: R() never decreases; a step changes the history only by appending
\* one entry, and only the step that completes a round of run does; a step
\* that ends a call (a halt on a missing model or a training failure
\* included) and every step of gen_custom_marginals leave R() as it is.
C26_HistoryGrowsByRounds ==
    [][/\ Len(history') >= Len(history)
       /\ Len(history') # Len(history) =>
             /\ Len(history') = Len(history) + 1
             /\ caller = "run" /\ pc = "record" /\ pc' = "loop" /\ r' = r + 1
       /\ (caller = "run" /\ pc = "record") => Len(history') = Len(history) + 1
       /\ (pc' = "idle" \/ caller = "gen_custom_marginals") =>
             Len(history') = Len(history)]_vars

\* Two calls of run have completed three rounds between them.
C26_Witness ==
    /\ pc = "idle"
    /\ outcome = "returned"
    /\ calls = 2
    /\ R = 3

\* C27: converged() never goes back to false; a call of run on a converged
\* object is at its loop test and only returns: no step of it changes the
\* store or the history or starts a round.
C27_ConvergenceAbsorbing ==
    /\ [][converged => converged']_vars
    /\ []((converged /\ caller = "run") => pc = "loop")
    /\ [][(converged /\ caller = "run") =>
             /\ pc' = "idle" /\ outcome' = "returned"
             /\ cache' = cache
             /\ history' = history]_vars

\* A later call of run on a converged object.
C27_Witness ==
    /\ converged
    /\ caller = "run"
    /\ calls = 2
    /\ r = 0
    /\ pc = "loop"

\* C28: while the last region constructed has zero volume, converged() is
\* false: the round that constructed it did not mark convergence, and no
\* round trained on it does.
C28_ZeroVolumeNeverConverges ==
    /\ [](ZeroRegion => ~converged)
    /\ [][(InRound /\ volume(prior_R) = <<0, 1>>) => ~converged']_vars

\* A round following the one that constructed a region of zero volume has
\* trained on it.
C28_Witness ==
    /\ ZeroRegion
    /\ InRound
    /\ r > 0
    /\ pc = "mask"
    /\ volume(prior_R) = <<0, 1>>


\* C30: an entry of ratio_cache is never removed or replaced; the ratios
\* for an observation are evaluated at most once; posterior(x0) returns
\* what the cache holds for x0, which after a further train() or
\* load_state() are the ratios of the network as it was at the first call.
C30_RatioCacheNeverInvalidated ==
    /\ [](\A k \in DOMAIN evals : evals[k] <= 1)
    /\ [](returned # <<>> =>
            /\ tobytes(returned[1]) \in DOMAIN ratio_cache
            /\ returned[2] = ratio_cache[tobytes(returned[1])])
    /\ [][\A k \in DOMAIN ratio_cache :
             k \in DOMAIN ratio_cache' /\ ratio_cache'[k] = ratio_cache[k]]_vars

\* posterior(x0) has returned ratios of an earlier network although the
\* network has been trained since.
C30_Witness ==
    /\ returned # <<>>
    /\ returned[2] = 0
    /\ net = 2
    /\ re_ops = 2
    /\ evals[tobytes(returned[1])] = 1


\* C31: rejection_sample works on the collection the caller supplied, not
\* on a copy: what the caller holds is what remains to be sampled, every
\* marginal that has reached N samples has been removed from it, after a
\* call that completed all marginals it is empty, and a further call with
\* the same collection then returns an empty result.
C31_CallerCollectionConsumed ==
    (rs_pc # "off" /\ caller_param_tuples # None) =>
        /\ caller_param_tuples[1] = remaining_param_tuples
        /\ caller_param_tuples[1] = rs_args.param_tuples \ DOMAIN rs_out
        /\ rs_pc = "returned" => caller_param_tuples[1] = {}
        /\ \A i \in 1 .. Len(rs_prev) :
              rs_prev[i].pc = "returned" =>
                  /\ rs_args.param_tuples = {}
                  /\ rs_out = <<>>

\* A first call completed both marginals of the caller's collection; the
\* second call with the collection has returned, with nothing.
C31_Witness ==
    /\ rs_pc = "returned"
    /\ Len(rs_prev) = 1
    /\ rs_prev[1].pc = "returned"
    /\ DOMAIN rs_prev[1].out = Marginals
    /\ caller_param_tuples = Some({})
    /\ rs_out = <<>>


\* C32: the four stores of a SWYFT object, xz_store, net_store, loss_store
\* and test_loss_store, have the same length after any sequence of round,
\* save and load calls, and a round that raises changes none of them.
C32_StoresInStep ==
    /\ [](/\ Len(xz_store) = Len(net_store)
          /\ Len(net_store) = Len(loss_store)
          /\ Len(loss_store) = Len(test_loss_store))
    /\ [][sw_last' = "raised" =>
            UNCHANGED <<xz_store, net_store, loss_store, test_loss_store>>]_vars


\* C33: an invocation of the from_command model leaves the working
\* directory of the process as it found it, whether the command succeeded
\* or set_input_method, the command or get_output_method raised: once the
\* invocation of a thread has ended, no other thread having run, the
\* working directory is the one os.getcwd() returned to the invocation.
C33_CwdRestored ==
    inv # <<>> =>
        \A t \in Threads :
            (/\ inv[t].pc = "start"
             /\ inv[t].cwd # NoDir
             /\ \A u \in Threads \ {t} : inv[u].n = 0)
            => process_cwd = inv[t].cwd


\* C34: the rows of the observation array returned by Simulator.run are
\* written only for the points that did not fail: the row of a point
\* _has_failed classifies as FAILED keeps the NaN the array was filled
\* with, the row of any other point holds the output of the model.
C34_RowsOnlyForSuccesses ==
    sim_pc = "done" =>
        \A i \in 1 .. Len(z) :
            IF has_failed(model_out[i], fail_on_non_finite) = FAILED
            THEN result_dict[i] = nan
            ELSE result_dict[i] = written(z[i], model_out[i])

=============================================================================
